---- MODULE Spec2Model ----
(***************************************************************************)
(* RC5-32/12/16 of src/lib.rs: key_table (the key schedule), encode and    *)
(* decode, with the arithmetic helpers of src/util.rs.                     *)
(*                                                                         *)
(* A u32 is the pair <<hi, lo>> of its two 16-bit halves, value            *)
(* hi * 2^16 + lo: the model checker's integers are narrower than 2^32, so *)
(* every u32 operation is computed half by half, modulo 2^32.              *)
(***************************************************************************)
EXTENDS Integers, Sequences, FiniteSets, TLC

\* ------------------------------------------------------------------ u32

HALF == \h10000

U32(hi, lo) == <<hi, lo>>

Hi(w) == w[1]

Lo(w) == w[2]

IsU32(w) == /\ DOMAIN w = 1..2
            /\ Hi(w) \in 0..(HALF - 1)
            /\ Lo(w) \in 0..(HALF - 1)

ZERO == U32(0, 0)

\* `byte as u32`
AsU32(byte) == U32(0, byte)

WORD_SIZE_BITS == 32

WORD_SIZE_BYTES == WORD_SIZE_BITS \div 8

\* u32::overflowing_add: the wrapped sum and the overflow flag.
overflowing_add(x, y) ==
    LET lo == Lo(x) + Lo(y)
        hi == Hi(x) + Hi(y) + (lo \div HALF)
    IN  [res |-> U32(hi % HALF, lo % HALF), overflow |-> hi >= HALF]

\* u32::overflowing_sub: the wrapped difference and the borrow flag.
overflowing_sub(x, y) ==
    LET lo == Lo(x) - Lo(y)
        borrow == IF lo < 0 THEN 1 ELSE 0
        hi == Hi(x) - Hi(y) - borrow
    IN  [res |-> U32(hi % HALF, lo % HALF), overflow |-> hi < 0]

platform_add(x, y) == overflowing_add(x, y).res

platform_sub(x, y) == overflowing_sub(x, y).res

RECURSIVE XorBits(_, _, _)
XorBits(x, y, n) ==
    IF n = 0 THEN 0
    ELSE ((x + y) % 2) + 2 * XorBits(x \div 2, y \div 2, n - 1)

\* `x ^ y`
BitXor(x, y) == U32(XorBits(Hi(x), Hi(y), 16), XorBits(Lo(x), Lo(y), 16))

\* `v << 8`: the bits shifted out of the word are dropped.
Shl8(v) == U32(((Hi(v) % 256) * 256) + (Lo(v) \div 256), (Lo(v) % 256) * 256)

\* u32::rotate_left(n): n is a full u32, only n mod 32 matters.
rotate_left(x, n) ==
    LET r == Lo(n) % WORD_SIZE_BITS
        s == r % 16
        h == IF r >= 16 THEN Lo(x) ELSE Hi(x)
        l == IF r >= 16 THEN Hi(x) ELSE Lo(x)
        p == 2 ^ s
        q == 2 ^ (16 - s)
    IN  U32(((h * p) % HALF) + (l \div q), ((l * p) % HALF) + (h \div q))

\* u32::rotate_right(n): n is a full u32, only n mod 32 matters.
rotate_right(x, n) ==
    LET r == Lo(n) % WORD_SIZE_BITS
        s == r % 16
        h == IF r >= 16 THEN Lo(x) ELSE Hi(x)
        l == IF r >= 16 THEN Hi(x) ELSE Lo(x)
        p == 2 ^ s
        q == 2 ^ (16 - s)
    IN  U32((h \div p) + ((l % p) * q), (l \div p) + ((h % p) * q))

\* ------------------------------------------------------------ constants

P == U32(\hb7e1, \h5163)

Q == U32(\h9e37, \h79b9)

ROUNDS == 12

KEY_BYTES == 16

KEY_TABLE_WORDS == 2 * (ROUNDS + 1)

KEY_WORDS == 4

\* ------------------------------------------------------------- helpers

\* Vec::reverse
reverse(v) == [i \in 1..Len(v) |-> v[Len(v) + 1 - i]]

\* Variant: the collected items are not reversed.
from_iter_rev_unreversed(items) == items

\* FromIteratorRev for Vec: collect the items, then reverse them.
from_iter_rev(items) == reverse(items)

\* Indexing a Vec at the 0-based idx panics unless idx < len.
InRange(v, idx) == idx >= 0 /\ idx < Len(v)

\* v[idx], 0-based.
At(v, idx) == v[idx + 1]

\* tests::to_u32: 4 bytes per word, least significant byte first.
to_u32(bytes) ==
    [i \in 1..(Len(bytes) \div 4) |->
        U32((bytes[4 * i] * 256) + bytes[4 * i - 1],
            (bytes[4 * i - 2] * 256) + bytes[4 * i - 3])]

\* --------------------------------------------------------- preconditions

\* Variant: a key shorter than KEY_BYTES passes the check.
KeyLenOk_AtMost(k) == Len(k) <= KEY_BYTES

\* assert_eq!(key.len(), KEY_BYTES)
KeyLenOk(k) == Len(k) = KEY_BYTES

\* assert_eq!(key_table.len(), KEY_TABLE_WORDS)
TableLenOk(t) == Len(t) = KEY_TABLE_WORDS

\* assert_eq!(plaintext.len(), 2), assert_eq!(ciphertext.len(), 2)
BlockLenOk(blk) == Len(blk) = 2

\* ------------------------------------------------------ key_table, step 1

\* The fold closure |v, _| (v << 8) + (byte as u32); `+` is the checked
\* addition of a debug build.
FoldByte(v, byte) == overflowing_add(Shl8(v), AsU32(byte))

\* key.iter().rev(): the iterator state `it` is the number of bytes not yet
\* yielded; next() yields key[it - 1] (0-based) and None once it = 0.
\* (0..WORD_SIZE_BYTES).fold(0, ...) over n more bytes, from accumulator v.
RECURSIVE PackFold(_, _, _, _)
PackFold(key, it, n, v) ==
    IF n = 0 THEN [v |-> v, it |-> it, panic |-> "none"]
    ELSE IF it = 0 THEN [v |-> v, it |-> it, panic |-> "unwrap"]
    ELSE LET s == FoldByte(v, At(key, it - 1))
         IN  IF s.overflow THEN [v |-> v, it |-> it, panic |-> "overflow"]
             ELSE PackFold(key, it - 1, n - 1, s.res)

\* ------------------------------------------------------ key_table, step 2

\* Variant: the progression is not seeded with P.
ScanNext_unseeded(v, i) == platform_add(v, Q)

\* The scan closure: *v = if i == 0 { P } else { (*v).platform_add(Q) }
ScanNext(v, i) == IF i = 0 THEN P ELSE platform_add(v, Q)

\* ------------------------------------------------------ key_table, step 3

\* (0..len).cycle(): the state is the inner range's position; next() yields
\* it and advances, restarting the range once it is exhausted.
cycle_next(cur, len) ==
    IF cur < len THEN [item |-> cur, iter |-> cur + 1, none |-> FALSE]
    ELSE IF len > 0 THEN [item |-> 0, iter |-> 1, none |-> FALSE]
    ELSE [item |-> 0, iter |-> cur, none |-> TRUE]

\* Variant: two passes over the key table instead of three.
MixSteps_two_passes(len) == 2 * len

\* The loop range 0..3 * key_table.len()
MixSteps(len) == 3 * len

\* key_table[idx].platform_add(key_table_val).platform_add(key_words_val)
\*     .rotate_left(3)
MixTableVal(entry, tv, wv) ==
    rotate_left(platform_add(platform_add(entry, tv), wv), U32(0, 3))

\* Variant: the rotation amount leaves out key_words_val.
MixWordsVal_rot_by_table_val(entry, tv, wv) ==
    rotate_left(platform_add(platform_add(entry, tv), wv), tv)

\* key_words[idx].platform_add(key_table_val).platform_add(key_words_val)
\*     .rotate_left(key_table_val.platform_add(key_words_val))
MixWordsVal(entry, tv, wv) ==
    rotate_left(platform_add(platform_add(entry, tv), wv), platform_add(tv, wv))

\* ----------------------------------------------------------- encode/decode

\* The index of the subkey added to a, and of the one added to b, in round i.
SubkeyA(i) == 2 * i

\* Variant: off by one, so that round ROUNDS indexes past the table.
SubkeyB_off_by_one(i) == (2 * i) + 2

SubkeyB(i) == (2 * i) + 1

\* Variant: no whitening.
EncodeInitial_unwhitened(t, p) == <<At(p, 0), At(p, 1)>>

\* encode's `initial`
EncodeInitial(t, p) ==
    <<platform_add(At(p, 0), At(t, 0)), platform_add(At(p, 1), At(t, 1))>>

\* Variant: b is computed from the a of before the round.
EncodeRound_stale_a(t, acc, i) ==
    LET a0 == acc[1]
        b0 == acc[2]
        a1 == platform_add(rotate_left(BitXor(a0, b0), b0), At(t, SubkeyA(i)))
        b1 == platform_add(rotate_left(BitXor(b0, a0), a0), At(t, SubkeyB(i)))
    IN  <<a1, b1>>

\* encode's fold closure, round i
EncodeRound(t, acc, i) ==
    LET a0 == acc[1]
        b0 == acc[2]
        a1 == platform_add(rotate_left(BitXor(a0, b0), b0), At(t, SubkeyA(i)))
        b1 == platform_add(rotate_left(BitXor(b0, a1), a1), At(t, SubkeyB(i)))
    IN  <<a1, b1>>

\* Variant: a is updated before b, in encode's order.
DecodeRound_a_first(t, acc, i) ==
    LET a0 == acc[1]
        b0 == acc[2]
        a1 == BitXor(rotate_right(platform_sub(a0, At(t, SubkeyA(i))), b0), b0)
        b1 == BitXor(rotate_right(platform_sub(b0, At(t, SubkeyB(i))), a1), a1)
    IN  <<a1, b1>>

\* decode's fold closure, round i
DecodeRound(t, acc, i) ==
    LET a0 == acc[1]
        b0 == acc[2]
        b1 == BitXor(rotate_right(platform_sub(b0, At(t, SubkeyB(i))), a0), a0)
        a1 == BitXor(rotate_right(platform_sub(a0, At(t, SubkeyA(i))), b1), b1)
    IN  <<a1, b1>>

\* Variant: the whitening is not taken off.
DecodeFinal_whitened(t, acc) == <<acc[1], acc[2]>>

\* decode's result vector
DecodeFinal(t, acc) ==
    <<platform_sub(acc[1], At(t, 0)), platform_sub(acc[2], At(t, 1))>>

\* ------------------------------------------------------------------ inputs

NumGenKeys == 3

NumGenBlocks == 2

KeyA == <<\h00, \h01, \h02, \h03, \h04, \h05, \h06, \h07,
          \h08, \h09, \h0A, \h0B, \h0C, \h0D, \h0E, \h0F>>

KeyB == <<\h2B, \hD6, \h45, \h9F, \h82, \hC5, \hB3, \h00,
          \h95, \h2C, \h49, \h10, \h48, \h81, \hFF, \h48>>

KeyFF == [i \in 1..KEY_BYTES |-> \hFF]

GenKey(j) == [i \in 1..KEY_BYTES |-> ((j * 89) + (i * ((2 * j) + 7) * 29)) % 256]

ValidKeys == {KeyA, KeyB, KeyFF} \cup {GenKey(j) : j \in 1..NumGenKeys}

ShortKey == SubSeq(KeyB, 1, KEY_BYTES - 1)

LongKey == Append(KeyB, \h77)

Keys == ValidKeys \cup {ShortKey, LongKey}

PlainA == to_u32(<<\h00, \h11, \h22, \h33, \h44, \h55, \h66, \h77>>)

PlainB == to_u32(<<\hEA, \h02, \h47, \h14, \hAD, \h5C, \h4D, \h84>>)

GenBlock(j) ==
    <<U32((j * 40503) % HALF, (j * 26005) % HALF),
      U32(((j * 9973) + 65521) % HALF, (j * 31) % HALF)>>

ValidBlocks ==
    {PlainA, PlainB, <<ZERO, ZERO>>,
     <<U32(HALF - 1, HALF - 1), U32(HALF - 1, HALF - 1)>>}
    \cup {GenBlock(j) : j \in 1..NumGenBlocks}

Blocks == ValidBlocks \cup {<<PlainA[1]>>, Append(PlainB, PlainA[1]), <<>>}

ZeroTable == [i \in 1..KEY_TABLE_WORDS |-> ZERO]

RampTable == [i \in 1..KEY_TABLE_WORDS |-> U32((i * 2521) % HALF, (i * 31 + 5) % HALF)]

RawTables ==
    {ZeroTable, RampTable,
     SubSeq(RampTable, 1, KEY_TABLE_WORDS - 1), Append(RampTable, ZERO)}

\* ------------------------------------------------------------------- state

VARIABLES
    pc,             \* position of the caller and of the running function
    panic,          \* "none", or the reason the running function aborted
    key,            \* key_table's argument
    key_iter,       \* key.iter().rev(): bytes not yet yielded
    key_words,      \* the words collected by collect_rev, then key_words
    scan_v,         \* the state of scan
    key_table,      \* key_table's local vector
    key_table_val,
    key_words_val,
    key_table_iter,
    key_words_iter,
    key_table_idx,  \* of the last mixing step
    key_words_idx,  \* of the last mixing step
    mix_k,          \* mixing steps done
    writes,         \* per index of key_table, the mixing steps that wrote it
    table,          \* encode's and decode's key_table argument
    block,          \* encode's plaintext, decode's ciphertext
    a,
    b,
    round,          \* the next i of the fold
    reads,          \* per index of table, the reads of the running call
    result,         \* the vector the last call returned
    dir,            \* the first call: "encode" or "decode"
    stage,          \* 1: the first call, 2: its inverse on the first's result
    first           \* the first call's block

vars == <<pc, panic, key, key_iter, key_words, scan_v, key_table, key_table_val,
          key_words_val, key_table_iter, key_words_iter, key_table_idx,
          key_words_idx, mix_k, writes, table, block, a, b, round, reads,
          result, dir, stage, first>>

ktVars == <<key, key_iter, key_words, scan_v, key_table, key_table_val,
            key_words_val, key_table_iter, key_words_iter, key_table_idx,
            key_words_idx, mix_k, writes>>

cipherVars == <<block, a, b, round, reads, result, dir, stage, first>>

NoReads == [i \in 0..(KEY_TABLE_WORDS - 1) |-> 0]

Init ==
    /\ pc = "idle"
    /\ panic = "none"
    /\ key = <<>>
    /\ key_iter = 0
    /\ key_words = <<>>
    /\ scan_v = ZERO
    /\ key_table = <<>>
    /\ key_table_val = ZERO
    /\ key_words_val = ZERO
    /\ key_table_iter = 0
    /\ key_words_iter = 0
    /\ key_table_idx = 0
    /\ key_words_idx = 0
    /\ mix_k = 0
    /\ writes = NoReads
    /\ table = <<>>
    /\ block = <<>>
    /\ a = ZERO
    /\ b = ZERO
    /\ round = 0
    /\ reads = NoReads
    /\ result = <<>>
    /\ dir = "none"
    /\ stage = 0
    /\ first = <<>>

Abort(reason) == pc' = "abort" /\ panic' = reason

\* ---------------------------------------------------------------- callers

\* A caller expands a key, as every test does.
CallKeyTable ==
    /\ pc = "idle"
    /\ \E k \in Keys : key' = k
    /\ pc' = "kt_call"
    /\ UNCHANGED <<panic, key_iter, key_words, scan_v, key_table, key_table_val,
                   key_words_val, key_table_iter, key_words_iter, key_table_idx,
                   key_words_idx, mix_k, writes, table>>
    /\ UNCHANGED cipherVars

\* A caller holds a key table of its own: encode and decode take any Vec<u32>.
UseTable ==
    /\ pc = "idle"
    /\ \E t \in RawTables : table' = t
    /\ pc' = "ready"
    /\ UNCHANGED <<panic, ktVars, cipherVars>>

CallEncode ==
    /\ pc = "ready"
    /\ \E p \in Blocks : block' = p /\ first' = p
    /\ dir' = "encode"
    /\ stage' = 1
    /\ pc' = "enc_call"
    /\ UNCHANGED <<panic, ktVars, table, a, b, round, reads, result>>

CallDecode ==
    /\ pc = "ready"
    /\ \E c \in Blocks : block' = c /\ first' = c
    /\ dir' = "decode"
    /\ stage' = 1
    /\ pc' = "dec_call"
    /\ UNCHANGED <<panic, ktVars, table, a, b, round, reads, result>>

\* The caller hands the first call's result to the inverse function.
CallInverse ==
    /\ pc = "returned"
    /\ stage = 1
    /\ block' = result
    /\ stage' = 2
    /\ pc' = IF dir = "encode" THEN "dec_call" ELSE "enc_call"
    /\ UNCHANGED <<panic, ktVars, table, a, b, round, reads, result, dir, first>>

\* --------------------------------------------------------------- key_table

\* assert_eq!(key.len(), KEY_BYTES) and key.iter().rev()
KeyTableStart ==
    /\ pc = "kt_call"
    /\ IF ~KeyLenOk(key)
       THEN Abort("assert_key_len") /\ UNCHANGED key_iter
       ELSE pc' = "pack" /\ key_iter' = Len(key) /\ UNCHANGED panic
    /\ UNCHANGED <<key, key_words, scan_v, key_table, key_table_val,
                   key_words_val, key_table_iter, key_words_iter, key_table_idx,
                   key_words_idx, mix_k, writes, table>>
    /\ UNCHANGED cipherVars

\* Step 1, one item of the map: fold WORD_SIZE_BYTES bytes into a word; after
\* the last of the KEY_WORDS items collect_rev reverses what it collected.
PackWord ==
    /\ pc = "pack"
    /\ Len(key_words) < KEY_WORDS
    /\ LET f == PackFold(key, key_iter, WORD_SIZE_BYTES, ZERO)
           collected == Append(key_words, f.v)
       IN  IF f.panic # "none"
           THEN Abort(f.panic) /\ UNCHANGED <<key_iter, key_words>>
           ELSE /\ key_iter' = f.it
                /\ UNCHANGED panic
                /\ IF Len(collected) = KEY_WORDS
                   THEN key_words' = from_iter_rev(collected) /\ pc' = "scan"
                   ELSE key_words' = collected /\ pc' = "pack"
    /\ UNCHANGED <<key, scan_v, key_table, key_table_val, key_words_val,
                   key_table_iter, key_words_iter, key_table_idx, key_words_idx,
                   mix_k, writes, table>>
    /\ UNCHANGED cipherVars

\* Step 2, one item of the scan over 0..KEY_TABLE_WORDS; after the last one,
\* the accumulators and cursors of step 3 are set up (lines 58-60).
ScanStep ==
    /\ pc = "scan"
    /\ Len(key_table) < KEY_TABLE_WORDS
    /\ LET v == ScanNext(scan_v, Len(key_table))
       IN  /\ scan_v' = v
           /\ key_table' = Append(key_table, v)
    /\ IF Len(key_table') = KEY_TABLE_WORDS
       THEN /\ pc' = "mix"
            /\ key_table_val' = ZERO
            /\ key_words_val' = ZERO
            /\ key_table_iter' = 0
            /\ key_words_iter' = 0
            /\ mix_k' = 0
       ELSE /\ pc' = "scan"
            /\ UNCHANGED <<key_table_val, key_words_val, key_table_iter,
                           key_words_iter, mix_k>>
    /\ UNCHANGED <<panic, key, key_iter, key_words, key_table_idx,
                   key_words_idx, writes, table>>
    /\ UNCHANGED cipherVars

\* Step 3, one iteration of the loop.
MixStep ==
    /\ pc = "mix"
    /\ mix_k < MixSteps(Len(key_table))
    /\ LET tn == cycle_next(key_table_iter, Len(key_table))
           wn == cycle_next(key_words_iter, Len(key_words))
       IN  IF tn.none \/ wn.none
           THEN /\ Abort("unwrap")
                /\ UNCHANGED <<key_words, key_table, key_table_val,
                               key_words_val, key_table_iter, key_words_iter,
                               key_table_idx, key_words_idx, mix_k, writes>>
           ELSE IF ~InRange(key_table, tn.item) \/ ~InRange(key_words, wn.item)
           THEN /\ Abort("index")
                /\ UNCHANGED <<key_words, key_table, key_table_val,
                               key_words_val, key_table_iter, key_words_iter,
                               key_table_idx, key_words_idx, mix_k, writes>>
           ELSE LET tv == MixTableVal(At(key_table, tn.item), key_table_val,
                                      key_words_val)
                    wv == MixWordsVal(At(key_words, wn.item), tv, key_words_val)
                IN  /\ key_table_idx' = tn.item
                    /\ key_table_iter' = tn.iter
                    /\ key_table_val' = tv
                    /\ key_table' = [key_table EXCEPT ![tn.item + 1] = tv]
                    /\ key_words_idx' = wn.item
                    /\ key_words_iter' = wn.iter
                    /\ key_words_val' = wv
                    /\ key_words' = [key_words EXCEPT ![wn.item + 1] = wv]
                    /\ mix_k' = mix_k + 1
                    /\ writes' = [writes EXCEPT ![tn.item] = @ + 1]
                    /\ UNCHANGED <<pc, panic>>
    /\ UNCHANGED <<key, key_iter, scan_v, table>>
    /\ UNCHANGED cipherVars

\* The loop is over: key_table is returned to the caller.
KeyTableReturn ==
    /\ pc = "mix"
    /\ mix_k >= MixSteps(Len(key_table))
    /\ table' = key_table
    /\ pc' = "ready"
    /\ UNCHANGED <<panic, ktVars, cipherVars>>

\* ------------------------------------------------------------------ encode

\* The two assert_eq! and `initial`.
EncodeStart ==
    /\ pc = "enc_call"
    /\ IF ~TableLenOk(table)
       THEN Abort("assert_table_len") /\ UNCHANGED <<a, b, round, reads>>
       ELSE IF ~BlockLenOk(block)
       THEN Abort("assert_block_len") /\ UNCHANGED <<a, b, round, reads>>
       ELSE LET initial == EncodeInitial(table, block)
            IN  /\ a' = initial[1]
                /\ b' = initial[2]
                /\ round' = 1
                /\ reads' = [NoReads EXCEPT ![0] = 1, ![1] = 1]
                /\ pc' = "enc"
                /\ UNCHANGED panic
    /\ UNCHANGED <<ktVars, table, block, result, dir, stage, first>>

\* One call of the fold closure, i = round, of the range 1..ROUNDS + 1.
EncodeStep ==
    /\ pc = "enc"
    /\ round < ROUNDS + 1
    /\ IF ~InRange(table, SubkeyA(round)) \/ ~InRange(table, SubkeyB(round))
       THEN Abort("index") /\ UNCHANGED <<a, b, round, reads>>
       ELSE LET acc == EncodeRound(table, <<a, b>>, round)
            IN  /\ a' = acc[1]
                /\ b' = acc[2]
                /\ round' = round + 1
                /\ reads' = [reads EXCEPT ![SubkeyA(round)] = @ + 1,
                                          ![SubkeyB(round)] = @ + 1]
                /\ UNCHANGED <<pc, panic>>
    /\ UNCHANGED <<ktVars, table, block, result, dir, stage, first>>

\* vec![a, b]
EncodeReturn ==
    /\ pc = "enc"
    /\ round >= ROUNDS + 1
    /\ result' = <<a, b>>
    /\ pc' = "returned"
    /\ UNCHANGED <<panic, ktVars, table, block, a, b, round, reads, dir, stage,
                   first>>

\* ------------------------------------------------------------------ decode

\* The two assert_eq! and `initial`.
DecodeStart ==
    /\ pc = "dec_call"
    /\ IF ~TableLenOk(table)
       THEN Abort("assert_table_len") /\ UNCHANGED <<a, b, round, reads>>
       ELSE IF ~BlockLenOk(block)
       THEN Abort("assert_block_len") /\ UNCHANGED <<a, b, round, reads>>
       ELSE /\ a' = At(block, 0)
            /\ b' = At(block, 1)
            /\ round' = ROUNDS
            /\ reads' = NoReads
            /\ pc' = "dec"
            /\ UNCHANGED panic
    /\ UNCHANGED <<ktVars, table, block, result, dir, stage, first>>

\* One call of the fold closure, i = round, of the reversed range 1..ROUNDS + 1.
DecodeStep ==
    /\ pc = "dec"
    /\ round >= 1
    /\ IF ~InRange(table, SubkeyA(round)) \/ ~InRange(table, SubkeyB(round))
       THEN Abort("index") /\ UNCHANGED <<a, b, round, reads>>
       ELSE LET acc == DecodeRound(table, <<a, b>>, round)
            IN  /\ a' = acc[1]
                /\ b' = acc[2]
                /\ round' = round - 1
                /\ reads' = [reads EXCEPT ![SubkeyA(round)] = @ + 1,
                                          ![SubkeyB(round)] = @ + 1]
                /\ UNCHANGED <<pc, panic>>
    /\ UNCHANGED <<ktVars, table, block, result, dir, stage, first>>

\* vec![a.platform_sub(key_table[0]), b.platform_sub(key_table[1])]
DecodeReturn ==
    /\ pc = "dec"
    /\ round < 1
    /\ result' = DecodeFinal(table, <<a, b>>)
    /\ reads' = [reads EXCEPT ![0] = @ + 1, ![1] = @ + 1]
    /\ pc' = "returned"
    /\ UNCHANGED <<panic, ktVars, table, block, a, b, round, dir, stage, first>>

\* ----------------------------------------------------------- specification

Next ==
    \/ CallKeyTable
    \/ UseTable
    \/ CallEncode
    \/ CallDecode
    \/ CallInverse
    \/ KeyTableStart
    \/ PackWord
    \/ ScanStep
    \/ MixStep
    \/ KeyTableReturn
    \/ EncodeStart
    \/ EncodeStep
    \/ EncodeReturn
    \/ DecodeStart
    \/ DecodeStep
    \/ DecodeReturn

Spec == Init /\ [][Next]_vars

\* ------------------------------------------------------------ test vectors

\* tests::key_table_a: `expected`
ExpectedTableA ==
    <<U32(\hd447, \he233), U32(\hd82e, \hec20), U32(\h84fc, \he219),
      U32(\hb933, \h53de), U32(\h5ac2, \h588f), U32(\h48e9, \h22f1),
      U32(\h879f, \h5460), U32(\h1a69, \h3a4b), U32(\h5171, \hb55f),
      U32(\h9a20, \h6e4d), U32(\h9966, \hc4a0), U32(\hb166, \hb0d7),
      U32(\h89cc, \h6827), U32(\hcbe1, \hb9b7), U32(\h1bb7, \hf44f),
      U32(\h6388, \h29b4), U32(\h4da0, \hab3a), U32(\h74e5, \h4561),
      U32(\h5eb4, \hdee9), U32(\hbef1, \h0188), U32(\h728a, \h511f),
      U32(\h37a8, \hdebc), U32(\h5735, \h676a), U32(\hf96b, \h764a),
      U32(\h7aec, \h5407), U32(\h15e8, \he206)>>

\* tests::encode_a, tests::encode_b: `ciphertext`
CipherA == to_u32(<<\h2D, \hDC, \h14, \h9B, \hCF, \h08, \h8B, \h9E>>)

CipherB == to_u32(<<\h11, \hE4, \h3B, \h86, \hD2, \h31, \hEA, \h64>>)

\* tests::decode_a, tests::decode_b: `plaintext`
DecodedA == to_u32(<<\h96, \h95, \h0D, \hDA, \h65, \h4A, \h3D, \h62>>)

DecodedB == to_u32(<<\h63, \h8B, \h3A, \h5E, \hF7, \h2B, \h66, \h3F>>)

\* The caller expanded `key`, and the first call, `d` of block `blk`, returned.
Returned1(k, d, blk) ==
    /\ pc = "returned"
    /\ stage = 1
    /\ key = k
    /\ dir = d
    /\ first = blk

\* Both calls of a round trip that began with `d` returned.
Returned2(d) == pc = "returned" /\ stage = 2 /\ dir = d

\* ------------------------------------------------------------------ claims

\* C1: for every key table of 26 words (those key_table returns among them)
\* and every block P of 2 words, decode(T, encode(T, P)) = P.
C1_DecodeInvertsEncode ==
    Returned2("encode") =>
        /\ Len(table) = 26
        /\ Len(first) = 2
        /\ result = first

\* decode has returned the plaintext of test vector B from the ciphertext that
\* encode made of it under key_table(KeyB).
C1_Witness ==
    /\ Returned2("encode")
    /\ key = KeyB
    /\ first = PlainB
    /\ block = CipherB
    /\ result = PlainB

\* C2: for every key table of 26 words and every block C of 2 words, of any
\* bit pattern, encode(T, decode(T, C)) = C.
C2_EncodeInvertsDecode ==
    Returned2("decode") =>
        /\ Len(table) = 26
        /\ Len(first) = 2
        /\ result = first

\* encode has returned the all-ones block from what decode made of it under a
\* table that no key was expanded to.
C2_Witness ==
    /\ Returned2("decode")
    /\ table = RampTable
    /\ first = <<U32(HALF - 1, HALF - 1), U32(HALF - 1, HALF - 1)>>
    /\ block # first
    /\ result = first

\* C3: encode whitens (A = P[0] + T[0], B = P[1] + T[1]) and then runs the
\* rounds 1..12; on the two test vectors it returns the expected ciphertexts.
C3_EncodeVectors ==
    /\ (pc = "enc" /\ round = 1) =>
           /\ a = platform_add(block[1], table[1])
           /\ b = platform_add(block[2], table[2])
    /\ pc = "enc" => round \in 1..(ROUNDS + 1)
    /\ Returned1(KeyA, "encode", PlainA) => result = CipherA
    /\ Returned1(KeyB, "encode", PlainB) => result = CipherB

\* encode has returned for test vector B.
C3_Witness == Returned1(KeyB, "encode", PlainB) /\ result = CipherB

\* C4: key_table returns 26 words for every 16-byte key, and for the key
\* 00 01 .. 0F exactly the 26 words of the test.
C4_KeyTableVector ==
    (pc = "ready" /\ key # <<>>) =>
        /\ Len(key) = 16
        /\ Len(table) = KEY_TABLE_WORDS
        /\ \A i \in 1..Len(table) : IsU32(table[i])
        /\ key = KeyA => table = ExpectedTableA

\* key_table has returned for the key 00 01 .. 0F.
C4_Witness == pc = "ready" /\ key = KeyA /\ table = ExpectedTableA

\* C5: decode starts from A = C[0], B = C[1] and runs the rounds 12 down to
\* 1; on the two test vectors it returns the expected plaintexts.
C5_DecodeVectors ==
    /\ (pc = "dec" /\ round = ROUNDS) => (a = block[1] /\ b = block[2])
    /\ pc = "dec" => round \in 0..ROUNDS
    /\ Returned1(KeyA, "decode", PlainA) => result = DecodedA
    /\ Returned1(KeyB, "decode", PlainB) => result = DecodedB

\* decode has returned for the key 00 01 .. 0F.
C5_Witness == Returned1(KeyA, "decode", PlainA) /\ result = DecodedA

\* C6: a key that is not 16 bytes long aborts key_table before anything is
\* packed or mixed; a table that is not 26 words long or a block that is not
\* 2 words long aborts encode and decode; no result is produced.
C6_LengthPreconditions ==
    /\ (key # <<>> /\ pc # "kt_call" /\ Len(key) # 16) =>
           /\ pc = "abort"
           /\ panic = "assert_key_len"
           /\ key_iter = 0
           /\ key_words = <<>>
           /\ key_table = <<>>
           /\ mix_k = 0
           /\ table = <<>>
           /\ result = <<>>
    /\ (stage >= 1 /\ pc \notin {"enc_call", "dec_call"}
            /\ (Len(table) # 26 \/ Len(block) # 2)) =>
           /\ pc = "abort"
           /\ panic = IF Len(table) # 26
                      THEN "assert_table_len" ELSE "assert_block_len"
           /\ reads = NoReads
           /\ round = 0
           /\ result = <<>>

\* key_table has aborted on the 15-byte key.
C6_Witness ==
    /\ pc = "abort"
    /\ panic = "assert_key_len"
    /\ Len(key) = KEY_BYTES - 1

\* encode has aborted on a 3-word block, under a table of 26 words.
C6_WitnessBlock ==
    /\ pc = "abort"
    /\ panic = "assert_block_len"
    /\ dir = "encode"
    /\ Len(table) = KEY_TABLE_WORDS
    /\ Len(block) = 3

\* The little-endian word i (0-based) of a byte sequence.
LittleEndianWord(bytes, i) ==
    U32((bytes[(4 * i) + 4] * 256) + bytes[(4 * i) + 3],
        (bytes[(4 * i) + 2] * 256) + bytes[(4 * i) + 1])

\* C7: step 1 of key_table yields the direct little-endian packing of the
\* key: key word i = bytes[4i] + bytes[4i+1]*2^8 + bytes[4i+2]*2^16 +
\* bytes[4i+3]*2^24.
C7_LittleEndianPacking ==
    pc = "scan" =>
        /\ Len(key_words) = KEY_WORDS
        /\ key_iter = 0
        /\ \A i \in 0..(KEY_WORDS - 1) :
               At(key_words, i) = LittleEndianWord(key, i)

\* Step 1 is over for key B, whose 4 words differ from one another.
C7_Witness ==
    /\ pc = "scan"
    /\ key = KeyB
    /\ key_words = <<U32(\h9F45, \hD62B), U32(\h00B3, \hC582),
                     U32(\h1049, \h2C95), U32(\h48FF, \h8148)>>

\* The words of a vector are all in 0..2^32-1.
AllU32(v) == \A i \in 1..Len(v) : IsU32(v[i])

\* C8: on inputs of the right lengths nothing aborts: no index is out of
\* range, no iterator runs dry, (v << 8) + byte never overflows; encode and
\* decode read each of the 26 table entries exactly once; every word stays in
\* 0..2^32-1.
C8_NoAbortInRange ==
    /\ panic \in {"none", "assert_key_len", "assert_table_len",
                  "assert_block_len"}
    /\ panic = "assert_key_len" => Len(key) # 16
    /\ panic = "assert_table_len" => Len(table) # 26
    /\ panic = "assert_block_len" => Len(block) # 2
    /\ pc = "abort" <=> panic # "none"
    /\ key_table_idx \in 0..(KEY_TABLE_WORDS - 1)
    /\ key_words_idx \in 0..(KEY_WORDS - 1)
    /\ pc = "returned" => \A i \in 0..(KEY_TABLE_WORDS - 1) : reads[i] = 1
    /\ \A i \in 0..(KEY_TABLE_WORDS - 1) : reads[i] <= 1
    /\ AllU32(key_words) /\ AllU32(key_table) /\ AllU32(table)
    /\ AllU32(result)
    /\ IsU32(a) /\ IsU32(b) /\ IsU32(scan_v)
    /\ IsU32(key_table_val) /\ IsU32(key_words_val)

\* encode and then decode have run to completion under the table of the
\* all-FF key, whose packing has the largest (v << 8) + byte there is.
C8_Witness ==
    /\ Returned2("encode")
    /\ key = KeyFF
    /\ panic = "none"
    /\ \A i \in 0..(KEY_TABLE_WORDS - 1) : reads[i] = 1

\* The number of k in 0..n-1 with k mod 26 = j.
WritesDue(n, j) == (n + (KEY_TABLE_WORDS - 1) - j) \div KEY_TABLE_WORDS

C9_MixState ==
    /\ pc = "mix" =>
           /\ mix_k \in 0..78
           /\ Len(key_table) = 26
           /\ Len(key_words) = 4
           /\ mix_k = 0 => (key_table_val = ZERO /\ key_words_val = ZERO)
           /\ mix_k > 0 =>
                  /\ key_table_idx = (mix_k - 1) % 26
                  /\ key_words_idx = (mix_k - 1) % 4
                  /\ key_table_val = At(key_table, key_table_idx)
                  /\ key_words_val = At(key_words, key_words_idx)
           /\ \A j \in 0..25 : writes[j] = WritesDue(mix_k, j)
    /\ (pc = "ready" /\ key # <<>>) =>
           /\ mix_k = 78
           /\ Len(table) = 26
           /\ \A j \in 0..25 : writes[j] = 3

C9_MixStepTouches ==
    (pc = "mix" /\ pc' = "mix" /\ mix_k' # mix_k) =>
        /\ mix_k' = mix_k + 1
        /\ key_table_idx' = mix_k % 26
        /\ key_words_idx' = mix_k % 4
        /\ \A j \in 0..25 :
               j # mix_k % 26 => At(key_table', j) = At(key_table, j)
        /\ \A j \in 0..3 :
               j # mix_k % 4 => At(key_words', j) = At(key_words, j)

\* C9: the mixing phase is exactly 78 steps; step k reads and overwrites
\* table[k mod 26] and words[k mod 4] and nothing else, so that every table
\* entry is overwritten exactly 3 times; the table stays 26 long; A and B
\* start at 0 and carry over.
C9_MixingSteps == []C9_MixState /\ [][C9_MixStepTouches]_vars

\* key_table has returned after its 78 mixing steps.
C9_Witness ==
    /\ pc = "ready"
    /\ key = KeyB
    /\ mix_k = 78
    /\ key_table_idx = 25
    /\ key_words_idx = 1
    /\ \A j \in 0..25 : writes[j] = 3

\* i * w mod 2^32, for 0 <= i < 2^15.
TimesU32(i, w) ==
    LET lo == i * Lo(w)
        hi == (i * Hi(w)) + (lo \div HALF)
    IN  U32(hi % HALF, lo % HALF)

\* C10: before mixing, the table is the progression table[0] = P,
\* table[i] = table[i-1] + Q, that is table[i] = P + i*Q mod 2^32, of exactly
\* 26 entries, whatever the key.
C10_Progression ==
    /\ pc = "scan" =>
           \A i \in 0..(Len(key_table) - 1) :
               At(key_table, i) = platform_add(P, TimesU32(i, Q))
    /\ (pc = "mix" /\ mix_k = 0) =>
           /\ Len(key_table) = 26
           /\ At(key_table, 0) = U32(\hb7e1, \h5163)
           /\ \A i \in 1..25 :
                  At(key_table, i) =
                      platform_add(At(key_table, i - 1), U32(\h9e37, \h79b9))
           /\ \A i \in 0..25 :
                  At(key_table, i) = platform_add(P, TimesU32(i, Q))

\* The table is complete and not yet mixed, for a generated key.
C10_Witness ==
    /\ pc = "mix"
    /\ mix_k = 0
    /\ key = GenKey(1)
    /\ Len(key_table) = 26
    /\ At(key_table, 25) = U32(\h2b4c, \h3474)

====
